---- MODULE Spec2Model ----
(***************************************************************************)
(* Model of src/main.rs: the generic Grid<T> with its triangular           *)
(* neighborhood, the double-buffered Automata<T>, and the light rule of    *)
(* main.  A grid is first built by Grid::new and used on its own, then     *)
(* moved into Automata::new; evolve is modelled cell by cell.              *)
(*                                                                         *)
(* A Vec<T> is a sequence; the Rust index k is the TLA+ index k+1.  A      *)
(* reference into a Vec is modelled by its Rust index, an Option by a      *)
(* sequence of length 0 (None) or 1 (Some).                                *)
(***************************************************************************)
EXTENDS Naturals, Integers, Sequences, FiniteSets, TLC

VARIABLES
    grid,      \* the Grid built by Grid::new; after Automata::new, the seed it was given
    args,      \* the arguments Grid::new was called with
    grids,     \* Automata.grids ( <<>> until Automata::new has run)
    flag,      \* Automata.flag
    pc,        \* "grid": no automaton yet; "idle": between calls; "evolve": inside evolve
    ei, ej,    \* the loop variables i and j of evolve
    snap,      \* the active grid as it was when the running/last evolve was called
    written,   \* the cells evolve has stored in the current pass
    pending,   \* the last write made through Automata::get_mut since the last generation
    gens,      \* number of evolve calls that have returned
    writes,    \* number of writes made through get_mut
    ret,       \* the last call: its name, its coordinate argument, its result
    shown      \* what main's print calls have shown: the cells lit at main's last write,
               \* and the cells printed lit since

vars == <<grid, args, grids, flag, pc, ei, ej, snap, written, pending, gens, writes, ret, shown>>

(* Bounds of the model *)
MaxW == 4
MaxH == 2
MaxLevel == 2
MaxWrites == 1
MaxGen == 3

U8 == 256

Widths == 0..MaxW
Heights == 0..MaxH
\* coordinates tried by callers: one column and one row beyond the largest grid
CoordI == 0..MaxW
CoordJ == 0..MaxH

Source(l) == [kind |-> "Source", level |-> l]
Space(l) == [kind |-> "Space", level |-> l]
Lights == {Source(l) : l \in 0..MaxLevel} \cup {Space(l) : l \in 0..MaxLevel}

\* the values callers pass: Grid::new's default, and the values stored through get_mut
Defaults == {Space(0), Space(MaxLevel - 1), Source(1)}
WriteVals == {Source(MaxLevel), Space(MaxLevel), Space(0)}

None == <<>>
Some(x) == <<x>>
is_some(o) == Len(o) = 1
unwrap(o) == o[1]

(* ---------------------------- Vec ------------------------------------- *)
\* vec![default; n]
VecNew(default, n) == [k \in 1..n |-> default]

\* slice::get / slice::get_mut: a reference to element idx, or None
VecGet(data, idx) == IF idx < Len(data) THEN Some(idx) ELSE None

\* *r = v for a reference r into data
Store(data, r, v) == [data EXCEPT ![r + 1] = v]

\* *r
Deref(data, r) == data[r + 1]

(* ---------------------------- Grid ------------------------------------ *)
\* variant: the vector is sized width*width
GridNewSquare(dims, default) == [data |-> VecNew(default, dims[1] * dims[1]), dims |-> dims]

GridNew(dims, default) == [data |-> VecNew(default, dims[1] * dims[2]), dims |-> dims]

\* variant: the index is taken column-major, j + i*width
GridGetTransposed(g, i, j) == VecGet(g.data, j + i * g.dims[1])

GridGet(g, i, j) == VecGet(g.data, i + j * g.dims[1])

\* variant: the index is taken column-major, j + i*width
GridGetMutTransposed(g, i, j) == VecGet(g.data, j + i * g.dims[1])

GridGetMut(g, i, j) == VecGet(g.data, i + j * g.dims[1])

\* variant: the right candidate is tested with i+1 <= width
NeighborCoordsRightOff(g, i, j) ==
    IF (i + j) % 2 = 0
    THEN << Some(<<i, j>>),
            IF i > 0 THEN Some(<<i - 1, j>>) ELSE None,
            IF i + 1 <= g.dims[1] THEN Some(<<i + 1, j>>) ELSE None,
            IF j + 1 < g.dims[2] THEN Some(<<i, j + 1>>) ELSE None >>
    ELSE << Some(<<i, j>>),
            IF i > 0 THEN Some(<<i - 1, j>>) ELSE None,
            IF i + 1 <= g.dims[1] THEN Some(<<i + 1, j>>) ELSE None,
            IF j > 0 THEN Some(<<i, j - 1>>) ELSE None >>

\* variant: the orientation is taken from the parity of i alone
NeighborCoordsColumnParity(g, i, j) ==
    IF i % 2 = 0
    THEN << Some(<<i, j>>),
            IF i > 0 THEN Some(<<i - 1, j>>) ELSE None,
            IF i + 1 < g.dims[1] THEN Some(<<i + 1, j>>) ELSE None,
            IF j + 1 < g.dims[2] THEN Some(<<i, j + 1>>) ELSE None >>
    ELSE << Some(<<i, j>>),
            IF i > 0 THEN Some(<<i - 1, j>>) ELSE None,
            IF i + 1 < g.dims[1] THEN Some(<<i + 1, j>>) ELSE None,
            IF j > 0 THEN Some(<<i, j - 1>>) ELSE None >>

\* variant: the two orientations are exchanged
NeighborCoordsSwapped(g, i, j) ==
    IF (i + j) % 2 = 1
    THEN << Some(<<i, j>>),
            IF i > 0 THEN Some(<<i - 1, j>>) ELSE None,
            IF i + 1 < g.dims[1] THEN Some(<<i + 1, j>>) ELSE None,
            IF j + 1 < g.dims[2] THEN Some(<<i, j + 1>>) ELSE None >>
    ELSE << Some(<<i, j>>),
            IF i > 0 THEN Some(<<i - 1, j>>) ELSE None,
            IF i + 1 < g.dims[1] THEN Some(<<i + 1, j>>) ELSE None,
            IF j > 0 THEN Some(<<i, j - 1>>) ELSE None >>

\* the array `coords` of Grid::neighborhood
NeighborCoords(g, i, j) ==
    IF (i + j) % 2 = 0
    THEN << Some(<<i, j>>),
            IF i > 0 THEN Some(<<i - 1, j>>) ELSE None,
            IF i + 1 < g.dims[1] THEN Some(<<i + 1, j>>) ELSE None,
            IF j + 1 < g.dims[2] THEN Some(<<i, j + 1>>) ELSE None >>
    ELSE << Some(<<i, j>>),
            IF i > 0 THEN Some(<<i - 1, j>>) ELSE None,
            IF i + 1 < g.dims[1] THEN Some(<<i + 1, j>>) ELSE None,
            IF j > 0 THEN Some(<<i, j - 1>>) ELSE None >>

\* .filter(|x| x.is_some()).map(|x| x.unwrap())
RECURSIVE Unwrapped(_)
Unwrapped(s) ==
    IF s = <<>> THEN <<>>
    ELSE IF is_some(Head(s)) THEN <<unwrap(Head(s))>> \o Unwrapped(Tail(s))
         ELSE Unwrapped(Tail(s))

\* Grid::neighborhood: the references it collects, in order
Neighborhood(g, i, j) ==
    LET cs == Unwrapped(NeighborCoords(g, i, j))
        looked == [k \in 1..Len(cs) |-> GridGet(g, cs[k][1], cs[k][2])]
    IN Unwrapped(looked)

\* .into_iter().cloned().collect(): the values behind the references
Cloned(g, refs) == [k \in 1..Len(refs) |-> Deref(g.data, refs[k])]

(* ---------------------------- the rule of main ------------------------- *)
\* variant: only a Space cell contributes its level
LevelOfSpaceOnly(c) == IF c.kind = "Space" THEN c.level ELSE 0

\* the level carried by a cell of either kind
LevelOf(c) == c.level

\* the `for ncel in ngh` loop, started with max = m
RECURSIVE MaxLoop(_, _)
MaxLoop(ngh, m) ==
    IF ngh = <<>> THEN m
    ELSE MaxLoop(Tail(ngh), IF LevelOf(Head(ngh)) > m THEN LevelOf(Head(ngh)) ELSE m)

Max2(a, b) == IF a >= b THEN a ELSE b

\* variant: a Space cell takes the largest level without the decrement
ruleNoDecay(ngh) ==
    IF ngh[1].kind = "Space"
    THEN Space(MaxLoop(ngh, 0))
    ELSE Source(ngh[1].level)

\* variant: the level is decremented without the max(1)
ruleNoFloor(ngh) ==
    IF ngh[1].kind = "Space"
    THEN Space((MaxLoop(ngh, 0) - 1) % U8)
    ELSE Source(ngh[1].level)

\* variant: a Source cell decays like a Space cell
ruleSourceDecays(ngh) ==
    IF ngh[1].kind = "Space"
    THEN Space((Max2(MaxLoop(ngh, 0), 1) - 1) % U8)
    ELSE Source((Max2(ngh[1].level, 1) - 1) % U8)

rule(ngh) ==
    IF ngh[1].kind = "Space"
    THEN Space((Max2(MaxLoop(ngh, 0), 1) - 1) % U8)
    ELSE Source(ngh[1].level)

(* ---------------------------- state ----------------------------------- *)
NoPending == [set |-> FALSE, at |-> <<0, 0>>, v |-> Space(0)]
NoShown == [base |-> {}, lit |-> {}]

Init ==
    \E w \in Widths, h \in Heights, d \in Defaults :
        /\ grid = GridNew(<<w, h>>, d)
        /\ args = [dims |-> <<w, h>>, default |-> d]
        /\ grids = <<>>
        /\ flag = 0
        /\ pc = "grid"
        /\ ei = 0
        /\ ej = 0
        /\ snap = GridNew(<<w, h>>, d)
        /\ written = {}
        /\ pending = NoPending
        /\ gens = 0
        /\ writes = 0
        /\ shown = NoShown
        /\ ret = [op |-> "grid_new", at |-> <<w, h>>, val |-> None]

\* self.grids[self.flag]
Active == grids[flag + 1]

\* variant: the write target is the active buffer (update in place)
InactiveSame == grids[flag + 1]

\* self.grids[(self.flag+1)%2]
Inactive == grids[((flag + 1) % 2) + 1]

(* ---------------------------- Grid operations -------------------------- *)
\* grid.get((i, j))
DoGridGet(i, j) ==
    /\ pc = "grid"
    /\ ret' = [op |-> "get", at |-> <<i, j>>, val |-> GridGet(grid, i, j)]
    /\ UNCHANGED <<shown, grid, args, grids, flag, pc, ei, ej, snap, written, pending, gens, writes>>

\* grid.get_mut((i, j)).map(|c| *c = v)
DoGridGetMut(i, j, v) ==
    /\ pc = "grid"
    /\ writes < MaxWrites
    /\ LET r == GridGetMut(grid, i, j) IN
        /\ grid' = IF is_some(r) THEN [grid EXCEPT !.data = Store(grid.data, unwrap(r), v)]
                   ELSE grid
        /\ ret' = [op |-> "get_mut", at |-> <<i, j>>, val |-> r]
    /\ writes' = writes + 1
    /\ UNCHANGED <<shown, args, grids, flag, pc, ei, ej, snap, written, pending, gens>>

\* grid.neighborhood((i, j))
DoGridNeighborhood(i, j) ==
    /\ pc = "grid"
    /\ ret' = [op |-> "neighborhood", at |-> <<i, j>>, val |-> Neighborhood(grid, i, j)]
    /\ UNCHANGED <<shown, grid, args, grids, flag, pc, ei, ej, snap, written, pending, gens, writes>>

(* ---------------------------- Automata --------------------------------- *)
\* variant: the automaton starts with buffer 1 active
AutomataNewFlag1 ==
    /\ pc = "grid"
    /\ grids' = <<grid, grid>>
    /\ flag' = 1
    /\ pc' = "idle"
    /\ ret' = [op |-> "automata_new", at |-> grid.dims, val |-> None]
    /\ UNCHANGED <<shown, grid, args, ei, ej, snap, written, pending, gens, writes>>

\* Automata::new(grid)
AutomataNew ==
    /\ pc = "grid"
    /\ grids' = <<grid, grid>>
    /\ flag' = 0
    /\ pc' = "idle"
    /\ ret' = [op |-> "automata_new", at |-> grid.dims, val |-> None]
    /\ UNCHANGED <<shown, grid, args, ei, ej, snap, written, pending, gens, writes>>

\* automata.get((i, j))
AutomataGet(i, j) ==
    /\ pc = "idle"
    /\ ret' = [op |-> "get", at |-> <<i, j>>, val |-> GridGet(Active, i, j)]
    /\ UNCHANGED <<shown, grid, args, grids, flag, pc, ei, ej, snap, written, pending, gens, writes>>

\* automata.get_mut((i, j)).map(|light| *light = v)
GetMutCall(i, j, v) ==
    /\ pc = "idle"
    /\ LET r == GridGetMut(Active, i, j) IN
        /\ grids' = IF is_some(r)
                    THEN [grids EXCEPT ![flag + 1].data = Store(Active.data, unwrap(r), v)]
                    ELSE grids
        /\ pending' = IF is_some(r) THEN [set |-> TRUE, at |-> <<i, j>>, v |-> v] ELSE pending
        /\ ret' = [op |-> "get_mut", at |-> <<i, j>>, val |-> r]
    /\ writes' = writes + 1
    /\ UNCHANGED <<grid, args, flag, pc, ei, ej, snap, written, gens>>

\* a caller's write through get_mut, while the model's budget of writes lasts
AutomataGetMut(i, j, v) ==
    /\ writes < MaxWrites
    /\ GetMutCall(i, j, v)
    /\ UNCHANGED shown

\* variant: the inner loop body runs once before its range is tested
LoopDoneOuterOnly == ei >= Active.dims[1]

\* variant: the outer loop stops one column early
LoopDoneEarly == ei + 1 >= Active.dims[1] \/ Active.dims[2] = 0

\* the loops of evolve have no iteration left
LoopDone == ei >= Active.dims[1] \/ Active.dims[2] = 0

\* entry of evolve: the range of the outer loop is taken
EvolveCall ==
    /\ pc = "idle"
    /\ pc' = "evolve"
    /\ ei' = 0
    /\ ej' = 0
    /\ snap' = Active
    /\ written' = {}
    /\ ret' = [op |-> "evolve_begin", at |-> <<0, 0>>, val |-> None]
    /\ UNCHANGED <<grid, args, grids, flag, pending, gens, writes>>

\* a caller's evolve, while the model's budget of generations lasts
EvolveBegin ==
    /\ gens < MaxGen
    /\ EvolveCall
    /\ UNCHANGED shown

\* one iteration of the inner loop body, for (i, j) = (ei, ej)
EvolveCell ==
    /\ pc = "evolve"
    /\ ~LoopDone
    /\ LET ngh == Cloned(Active, Neighborhood(Active, ei, ej))
           new_cell == GridGetMut(Inactive, ei, ej)
       IN IF is_some(new_cell)
          THEN /\ grids' = [grids EXCEPT ![((flag + 1) % 2) + 1].data =
                                Store(Inactive.data, unwrap(new_cell), rule(ngh))]
               /\ pc' = "evolve"
               /\ written' = written \cup {<<ei, ej>>}
               /\ ret' = [op |-> "evolve_cell", at |-> <<ei, ej>>, val |-> ngh]
               /\ IF ej + 1 < Active.dims[2]
                  THEN ei' = ei /\ ej' = ej + 1
                  ELSE ei' = ei + 1 /\ ej' = 0
          ELSE \* unwrap of None
               /\ pc' = "panic"
               /\ ret' = [op |-> "panic", at |-> <<ei, ej>>, val |-> None]
               /\ UNCHANGED <<grids, written, ei, ej>>
    /\ UNCHANGED <<shown, grid, args, flag, snap, pending, gens, writes>>

\* the inner loop of evolve for column i, from row j on, run on the data of
\* the inactive buffer: the data it leaves, or None when an unwrap fails
RECURSIVE InnerLoop(_, _, _)
InnerLoop(data, i, j) ==
    IF j >= Active.dims[2] THEN Some(data)
    ELSE LET ngh == Cloned(Active, Neighborhood(Active, i, j))
             new_cell == GridGetMut([Inactive EXCEPT !.data = data], i, j)
         IN IF is_some(new_cell)
            THEN InnerLoop(Store(data, unwrap(new_cell), rule(ngh)), i, j + 1)
            ELSE None

\* one iteration of the outer loop: the whole inner loop for i = ei
EvolveColumn ==
    /\ pc = "evolve"
    /\ ~LoopDone
    /\ ej = 0
    /\ LET stored == InnerLoop(Inactive.data, ei, 0)
       IN IF is_some(stored)
          THEN /\ grids' = [grids EXCEPT ![((flag + 1) % 2) + 1].data = unwrap(stored)]
               /\ pc' = "evolve"
               /\ written' = written \cup {<<ei, j>> : j \in 0..(Active.dims[2] - 1)}
               /\ ret' = [op |-> "evolve_column", at |-> <<ei, 0>>, val |-> None]
               /\ ei' = ei + 1
               /\ ej' = 0
          ELSE \* unwrap of None
               /\ pc' = "panic"
               /\ ret' = [op |-> "panic", at |-> <<ei, 0>>, val |-> None]
               /\ UNCHANGED <<grids, written, ei, ej>>
    /\ UNCHANGED <<shown, grid, args, flag, snap, pending, gens, writes>>

\* variant: evolve returns without flipping the flag
EvolveEndNoFlip ==
    /\ pc = "evolve"
    /\ LoopDone
    /\ flag' = flag
    /\ pc' = "idle"
    /\ gens' = gens + 1
    /\ pending' = NoPending
    /\ ret' = [op |-> "evolve", at |-> <<0, 0>>, val |-> None]
    /\ UNCHANGED <<shown, grid, args, grids, ei, ej, snap, written, writes>>

\* after the loops: the flag flips and evolve returns
EvolveEnd ==
    /\ pc = "evolve"
    /\ LoopDone
    /\ flag' = (flag + 1) % 2
    /\ pc' = "idle"
    /\ gens' = gens + 1
    /\ pending' = NoPending
    /\ ret' = [op |-> "evolve", at |-> <<0, 0>>, val |-> None]
    /\ UNCHANGED <<shown, grid, args, grids, ei, ej, snap, written, writes>>

(* ---------------------------- the rule on its own ---------------------- *)
\* the array `coords` of Grid::neighborhood has 4 entries
NghLen == 4

\* levels handed to the rule: the low ones and the top of the u8 range
RuleLevels == {0, 1, MaxLevel, U8 - 2, U8 - 1}
RuleLights == {Source(l) : l \in RuleLevels} \cup {Space(l) : l \in RuleLevels}
RuleArgs == UNION {[1..n -> RuleLights] : n \in 1..NghLen}

\* a neighborhood is about to be handed to the rule
RuleInit ==
    \E ngh \in RuleArgs :
        /\ grid = GridNew(<<0, 0>>, Space(0))
        /\ args = [dims |-> <<0, 0>>, default |-> Space(0)]
        /\ grids = <<>>
        /\ flag = 0
        /\ pc = "rule"
        /\ ei = 0
        /\ ej = 0
        /\ snap = GridNew(<<0, 0>>, Space(0))
        /\ written = {}
        /\ pending = NoPending
        /\ gens = 0
        /\ writes = 0
        /\ shown = NoShown
        /\ ret = [op |-> "rule_arg", at |-> <<0, 0>>, val |-> ngh]

\* rule(ngh)
RuleApply ==
    /\ pc = "rule"
    /\ ret.op = "rule_arg"
    /\ ret' = [op |-> "rule", at |-> <<0, 0>>, val |-> <<ret.val, rule(ret.val)>>]
    /\ UNCHANGED <<shown, grid, args, grids, flag, pc, ei, ej, snap, written, pending, gens, writes>>

RuleNext == RuleApply

SpecRule == RuleInit /\ [][RuleNext]_vars

(* ---------------------------- main -------------------------------------- *)
\* Light's Display prints a cell blank when its intensity is 0: the cells of
\* g that print shows with a number
LitCells(g) == {k \in 0..(Len(g.data) - 1) : g.data[k + 1].level # 0}

MainW == 30
MainH == 20
SrcI == 10
SrcJ == 10
SrcLevel == 10
FirstLoop == 10
SecondLoop == 20

\* Grid::new((w,h), Light::Space(0))
MainInit ==
    /\ grid = GridNew(<<MainW, MainH>>, Space(0))
    /\ args = [dims |-> <<MainW, MainH>>, default |-> Space(0)]
    /\ grids = <<>>
    /\ flag = 0
    /\ pc = "grid"
    /\ ei = 0
    /\ ej = 0
    /\ snap = GridNew(<<MainW, MainH>>, Space(0))
    /\ written = {}
    /\ pending = NoPending
    /\ gens = 0
    /\ writes = 0
    /\ shown = NoShown
    /\ ret = [op |-> "grid_new", at |-> <<MainW, MainH>>, val |-> None]

\* Automata::new(...)
MainNew == AutomataNew

\* automata.get_mut((10,10)).map(|light| *light = Light::Source(10))
MainSetSource ==
    /\ writes = 0
    /\ gens = 0
    /\ GetMutCall(SrcI, SrcJ, Source(SrcLevel))
    /\ shown' = [base |-> LitCells(Active'), lit |-> {}]

\* automata.print(); automata.evolve(rule) in the first loop, then in the second
MainEvolve ==
    /\ \/ writes = 1 /\ gens < FirstLoop
       \/ writes = 2 /\ gens < FirstLoop + SecondLoop
    /\ shown' = [shown EXCEPT !.lit = @ \cup LitCells(Active)]
    /\ EvolveCall

\* variant: the source is replaced by a dark cell
MainRevertDark ==
    /\ writes = 1
    /\ gens = FirstLoop
    /\ GetMutCall(SrcI, SrcJ, Space(0))
    /\ shown' = [base |-> LitCells(Active'), lit |-> {}]

\* automata.get_mut((10,10)).map(|light| *light = Light::Space(10))
MainRevert ==
    /\ writes = 1
    /\ gens = FirstLoop
    /\ GetMutCall(SrcI, SrcJ, Space(SrcLevel))
    /\ shown' = [base |-> LitCells(Active'), lit |-> {}]

MainNext ==
    \/ MainNew
    \/ MainSetSource
    \/ MainEvolve
    \/ EvolveColumn
    \/ EvolveEnd
    \/ MainRevert

SpecMain == MainInit /\ [][MainNext]_vars

Next ==
    \/ \E i \in CoordI, j \in CoordJ : DoGridGet(i, j)
    \/ \E i \in CoordI, j \in CoordJ, v \in WriteVals : DoGridGetMut(i, j, v)
    \/ \E i \in CoordI, j \in CoordJ : DoGridNeighborhood(i, j)
    \/ AutomataNew
    \/ \E i \in CoordI, j \in CoordJ : AutomataGet(i, j)
    \/ \E i \in CoordI, j \in CoordJ, v \in WriteVals : AutomataGetMut(i, j, v)
    \/ EvolveBegin
    \/ EvolveCell
    \/ EvolveEnd

Spec == Init /\ [][Next]_vars

(* ---------------------------- reference definitions -------------------- *)
\* (i, j) lies in [0, width) x [0, height)
InBounds(dims, i, j) == i < dims[1] /\ j < dims[2]

\* the linear index of cell (i, j)
Index(dims, i, j) == i + j * dims[1]

Cells(dims) == {c \in (0..(dims[1] - 1)) \X (0..(dims[2] - 1)) : TRUE}

\* the candidate cells of (i, j) in the documented order, as integer pairs
\* (the left candidate of column 0 is (-1, j))
Candidates(i, j) ==
    << <<i, j>>, <<i - 1, j>>, <<i + 1, j>>,
       IF (i + j) % 2 = 0 THEN <<i, j + 1>> ELSE <<i, j - 1>> >>

CandidateIn(dims, c) == c[1] >= 0 /\ c[1] < dims[1] /\ c[2] >= 0 /\ c[2] < dims[2]

\* the cells a neighborhood is documented to hold, as linear indices
RefNeighbors(dims, i, j) ==
    LET kept == SelectSeq(Candidates(i, j), LAMBDA c : CandidateIn(dims, c))
    IN [k \in 1..Len(kept) |-> Index(dims, kept[k][1], kept[k][2])]

\* the synchronous next generation of g, computed from g alone
RefNext(g) ==
    [data |-> [k \in 1..Len(g.data) |->
                 LET i == (k - 1) % g.dims[1]
                     j == (k - 1) \div g.dims[1]
                     refs == RefNeighbors(g.dims, i, j)
                 IN rule([n \in 1..Len(refs) |-> g.data[refs[n] + 1]])],
     dims |-> g.dims]

\* the grid the last get / get_mut / neighborhood call was made on
Visible == IF pc = "grid" THEN grid ELSE Active

(* ---------------------------- claims ----------------------------------- *)

\* C1: get and get_mut, of Grid and of Automata, return None for every (i, j)
\* with i >= width or j >= height.
C1_OutOfBoundsAbsent ==
    (ret.op \in {"get", "get_mut"} /\ ~InBounds(Visible.dims, ret.at[1], ret.at[2]))
        => ret.val = None

\* C2: when evolve has returned, the visible grid is the synchronous update of
\* the grid that was visible when evolve was called: every cell is the rule
\* applied to its neighborhood in that pre-generation grid.
C2_ReadConsistent ==
    ret.op = "evolve" => Active = RefNext(snap)

C2_Witness ==
    /\ ret.op = "evolve"
    /\ gens = 2
    /\ writes = 1
    /\ Active # snap
    /\ Active.dims = <<4, 2>>

\* C3: for in-bounds (i, j), neighborhood(i, j) is the cell itself, then
\* (i-1, j), (i+1, j) and (i, j+1) for even i+j or (i, j-1) for odd i+j, in
\* this order, without the candidates outside the grid and nothing else;
\* evolve hands the rule the values of exactly these cells.
C3_NeighborhoodOrder ==
    /\ (ret.op = "neighborhood" /\ InBounds(grid.dims, ret.at[1], ret.at[2]))
          => /\ ret.val = RefNeighbors(grid.dims, ret.at[1], ret.at[2])
             /\ ret.val[1] = Index(grid.dims, ret.at[1], ret.at[2])
    /\ ret.op = "evolve_cell"
          => ret.val = Cloned(Active, RefNeighbors(Active.dims, ret.at[1], ret.at[2]))

C3_Witness ==
    /\ ret.op = "neighborhood"
    /\ grid.dims = <<4, 2>>
    /\ ret.at = <<2, 0>>
    /\ ret.val = <<2, 1, 3, 6>>

\* C4: while evolve runs, no step changes the active buffer or the flag
\* before the loops are over; a cell step stores one cell of the inactive
\* buffer; the flag flips only when all width*height cells have been stored,
\* so the active grid is the pre-generation grid during the whole pass.
C4_NoPartialGeneration ==
    /\ [](pc = "evolve" => Active = snap)
    /\ [][pc = "evolve" =>
            /\ grids'[flag + 1] = grids[flag + 1]
            /\ pc' = "evolve" =>
                  /\ flag' = flag
                  /\ \E c \in Cells(Active.dims) :
                        /\ written' = written \cup {c}
                        /\ c \notin written
                        /\ \A k \in 1..Len(Inactive.data) :
                              k # Index(Active.dims, c[1], c[2]) + 1
                                 => Inactive'.data[k] = Inactive.data[k]
            /\ flag' # flag =>
                  /\ written = Cells(Active.dims)
                  /\ Cardinality(written) = Active.dims[1] * Active.dims[2]
                  /\ grids' = grids
         ]_vars

C4_Witness ==
    /\ pc = "evolve"
    /\ Cardinality(written) = 3
    /\ Active.dims = <<4, 2>>
    /\ Inactive # Active
    /\ gens = 1

\* C5: the flag is 0 or 1 and equals the number of completed evolve calls
\* mod 2 (so get_mut, which completes no evolve call, leaves it alone and each
\* evolve call flips it); evolve has no precondition and never stops short of
\* its return: the unwrap in its loop body always finds a cell.
C5_FlagAlternates ==
    /\ pc # "grid" => flag \in {0, 1} /\ flag = gens % 2
    /\ pc # "panic"
    /\ (pc = "evolve" /\ ~LoopDone) =>
          /\ InBounds(Active.dims, ei, ej)
          /\ is_some(GridGetMut(Inactive, ei, ej))

C5_Witness ==
    /\ pc = "idle"
    /\ gens = 2
    /\ flag = 0
    /\ ret.op = "evolve"

\* C6: in every state both buffers have the dims of the seed grid and every
\* data vector has length width*height.
C6_DimsStable ==
    /\ grid.dims = args.dims
    /\ Len(grid.data) = args.dims[1] * args.dims[2]
    /\ pc # "grid" =>
          \A b \in 1..2 :
              /\ grids[b].dims = args.dims
              /\ Len(grids[b].data) = args.dims[1] * args.dims[2]

C6_Witness ==
    /\ pc = "idle"
    /\ gens = 2
    /\ writes = 1
    /\ args.dims = <<4, 2>>
    /\ Len(grids[1].data) = 8
    /\ Len(grids[2].data) = 8

\* C7: a write through Automata::get_mut at an in-bounds (i, j) changes cell
\* (i, j) of the active buffer to the written value and nothing else; the
\* next evolve reads the written value for (i, j).
C7_WriteFrame ==
    /\ [][(ret'.op = "get_mut" /\ pc = "idle"
              /\ InBounds(Active.dims, ret'.at[1], ret'.at[2])) =>
            LET i == ret'.at[1]
                j == ret'.at[2]
            IN /\ pending'.set /\ pending'.at = ret'.at
               /\ GridGet(Active', i, j) = Some(Index(Active.dims, i, j))
               /\ Deref(Active'.data, Index(Active.dims, i, j)) = pending'.v
               /\ \A c \in Cells(Active.dims) :
                     c # <<i, j>> =>
                        Deref(Active'.data, Index(Active.dims, c[1], c[2]))
                           = Deref(Active.data, Index(Active.dims, c[1], c[2]))
               /\ Active'.dims = Active.dims
               /\ Len(Active'.data) = Len(Active.data)
               /\ Inactive' = Inactive
               /\ flag' = flag
         ]_vars
    /\ []((ret.op = "evolve_cell" /\ pending.set /\ ret.at = pending.at
              /\ InBounds(Active.dims, pending.at[1], pending.at[2]))
            => ret.val[1] = pending.v)

C7_Witness ==
    /\ ret.op = "evolve_cell"
    /\ pending.set
    /\ ret.at = pending.at
    /\ pending.at = <<1, 1>>
    /\ Active.dims = <<4, 2>>
    /\ pending.v # args.default
    /\ ret.val[1] = pending.v
    /\ gens = 1

\* C8: right after Automata::new(seed) the flag is 0 and both buffers equal
\* the seed, so get(i, j) gives the seed's value for every in-bounds (i, j).
C8_NewCopiesSeed ==
    ret.op = "automata_new" =>
        /\ flag = 0
        /\ grids[1] = grid
        /\ grids[2] = grid
        /\ \A c \in Cells(grid.dims) :
              /\ is_some(GridGet(Active, c[1], c[2]))
              /\ Deref(Active.data, unwrap(GridGet(Active, c[1], c[2])))
                    = grid.data[Index(grid.dims, c[1], c[2]) + 1]

C8_Witness ==
    /\ ret.op = "automata_new"
    /\ writes = 1
    /\ grid.dims = <<4, 2>>
    /\ \E k \in 1..8 : grid.data[k] # args.default

\* C9: after Grid::new(dims, default), get(i, j) is Some(default) for every
\* i < width and j < height.
C9_FreshGridDefault ==
    /\ ret.op = "grid_new" =>
          \A c \in Cells(args.dims) :
              /\ is_some(GridGet(grid, c[1], c[2]))
              /\ Deref(grid.data, unwrap(GridGet(grid, c[1], c[2]))) = args.default
    /\ (ret.op = "get" /\ pc = "grid" /\ writes = 0
           /\ InBounds(args.dims, ret.at[1], ret.at[2]))
          => /\ is_some(ret.val)
             /\ Deref(grid.data, unwrap(ret.val)) = args.default

C9_Witness ==
    /\ ret.op = "get"
    /\ pc = "grid"
    /\ writes = 0
    /\ args.dims = <<4, 2>>
    /\ ret.at = <<2, 1>>
    /\ ret.val = Some(6)

\* C10: neighborhood(i, j) has at least one element when (i, j) is in bounds
\* and is empty when (i, j) is out of bounds.
C10_NeighborhoodTotal ==
    ret.op = "neighborhood" =>
        IF InBounds(grid.dims, ret.at[1], ret.at[2])
        THEN Len(ret.val) >= 1
        ELSE ret.val = <<>>

\* the cells a sequence of references points to
RefSet(refs) == {refs[k] : k \in 1..Len(refs)}

\* per cell, the level of a Source and -1 for a Space
SourceMap(g) == [k \in 1..Len(g.data) |->
                    IF g.data[k].kind = "Source" THEN g.data[k].level ELSE -1]

\* C11: a grid of width 0 or height 0 has no cell: get and get_mut return None
\* for every (i, j), and evolve on it applies no rule, does not fail on its
\* unwrap and flips the flag.
C11_EmptyGridHarmless ==
    (args.dims[1] = 0 \/ args.dims[2] = 0) =>
        /\ Len(grid.data) = 0
        /\ ret.op \in {"get", "get_mut"} => ret.val = None
        /\ pc # "panic"
        /\ ret.op # "evolve_cell"
        /\ pc = "evolve" => written = {}
        /\ pc # "grid" => flag = gens % 2

C11_Witness ==
    /\ args.dims = <<2, 0>>
    /\ ret.op = "evolve"
    /\ pc = "idle"
    /\ gens = 1
    /\ flag = 1

\* C15: the neighborhood of an in-bounds cell has 1 + (number of its
\* candidates inside the grid) elements, between 1 and 4; for the corner (0,0)
\* it is the cell itself, then (1,0) if width > 1, then (0,1) if height > 1.
C15_CornerNeighborhood ==
    (ret.op = "neighborhood" /\ InBounds(grid.dims, ret.at[1], ret.at[2])) =>
        LET cand == Candidates(ret.at[1], ret.at[2])
            w == grid.dims[1]
            h == grid.dims[2]
        IN /\ Len(ret.val) = 1 + Cardinality({k \in 2..4 : CandidateIn(grid.dims, cand[k])})
           /\ Len(ret.val) >= 1
           /\ Len(ret.val) <= 4
           /\ ret.at = <<0, 0>> =>
                 /\ ret.val = <<0>> \o (IF w > 1 THEN <<1>> ELSE <<>>)
                                    \o (IF h > 1 THEN <<w>> ELSE <<>>)
                 /\ Len(ret.val) <= 3

C15_Witness ==
    /\ ret.op = "neighborhood"
    /\ ret.at = <<0, 0>>
    /\ grid.dims = <<1, 2>>
    /\ ret.val = <<0, 1>>

\* C17: for in-bounds cells a # b, b is in neighborhood(a) exactly when a is
\* in neighborhood(b), and a neighborhood holds no cell twice.
C17_NeighborSymmetric ==
    (ret.op = "neighborhood" /\ InBounds(grid.dims, ret.at[1], ret.at[2])) =>
        LET a == Index(grid.dims, ret.at[1], ret.at[2])
        IN /\ \A b \in Cells(grid.dims) :
                 Index(grid.dims, b[1], b[2]) # a =>
                    (Index(grid.dims, b[1], b[2]) \in RefSet(ret.val)
                       <=> a \in RefSet(Neighborhood(grid, b[1], b[2])))
           /\ Cardinality(RefSet(ret.val)) = Len(ret.val)

C17_Witness ==
    /\ ret.op = "neighborhood"
    /\ grid.dims = <<4, 2>>
    /\ ret.at = <<1, 1>>
    /\ ret.val = <<5, 4, 6>>
    /\ 5 \in RefSet(Neighborhood(grid, 2, 1))
    /\ 5 \notin RefSet(Neighborhood(grid, 1, 0))

\* C18: evolve keeps every Source cell a Source of the same level and every
\* Space cell a Space; between calls only a get_mut write changes which cells
\* are Sources.
C18_KindsPreserved ==
    /\ [](ret.op = "evolve" => SourceMap(Active) = SourceMap(snap))
    /\ [][(pc # "grid" /\ ret'.op # "get_mut" /\ (flag' # flag \/ grids' # grids))
            => SourceMap(Active') = SourceMap(Active)]_vars

C18_Witness ==
    /\ ret.op = "evolve"
    /\ gens = 2
    /\ \E k \in 1..Len(Active.data) : Active.data[k] = Source(MaxLevel)
    /\ \E k \in 1..Len(Active.data) : Active.data[k].kind = "Space" /\ Active.data[k] # snap.data[k]

(* ---------------------------- diffusion -------------------------------- *)
\* the cells adjacent to the cell of linear index a (a itself included)
Adjacent(dims, a) == RefSet(RefNeighbors(dims, a % dims[1], a \div dims[1]))

\* the cells at graph distance at most k from the cell of linear index a
RECURSIVE Ball(_, _, _)
Ball(dims, a, k) ==
    IF k = 0 THEN {a}
    ELSE LET b == Ball(dims, a, k - 1)
         IN UNION {Adjacent(dims, c) : c \in b}

\* the graph distance from a to c if it is at most k, and k + 1 otherwise
RECURSIVE DistUpTo(_, _, _, _)
DistUpTo(dims, a, c, k) ==
    IF k = 0 THEN (IF c = a THEN 0 ELSE 1)
    ELSE LET d == DistUpTo(dims, a, c, k - 1)
         IN IF d <= k - 1 THEN d
            ELSE IF c \in Ball(dims, a, k) THEN k ELSE k + 1

\* the indices of the Source cells of g
SourcesOf(g) == {k \in 0..(Len(g.data) - 1) : g.data[k + 1].kind = "Source"}

\* the seed is Space(0) everywhere but for one Source of level >= 1, written
\* before Automata::new, and nothing has been written since
SingleSourceRun ==
    /\ pc # "grid"
    /\ args.default = Space(0)
    /\ writes = 1
    /\ Cardinality(SourcesOf(grid)) = 1
    /\ \A a \in SourcesOf(grid) : grid.data[a + 1].level >= 1

MaxLevelIn(ngh) ==
    CHOOSE m \in {ngh[k].level : k \in 1..Len(ngh)} :
        \A k \in 1..Len(ngh) : ngh[k].level <= m

\* C14: for a Space cell the rule gives Space(max(m, 1) - 1), m the largest
\* level of the neighborhood, Source and Space alike: a level in 0..254, never
\* a wrapped one, and Space(0) when all levels are 0; this for neighborhoods
\* of 1 to 4 cells and levels up to 255.
C14_RuleFloored ==
    (ret.op = "rule" /\ ret.val[1][1].kind = "Space") =>
        LET ngh == ret.val[1]
            new == ret.val[2]
            m == MaxLevelIn(ngh)
        IN /\ new.kind = "Space"
           /\ new.level = (IF m >= 1 THEN m ELSE 1) - 1
           /\ new.level >= 0
           /\ new.level < U8 - 1
           /\ new.level <= m
           /\ (\A k \in 1..Len(ngh) : ngh[k].level = 0) => new = Space(0)

C14_Witness ==
    /\ ret.op = "rule"
    /\ ret.val[1] = <<Space(0), Source(0), Space(0), Space(0)>>
    /\ ret.val[2] = Space(0)

(* ---------------------------- the run of main --------------------------- *)
\* the balls of radius 0..n around the cell of linear index a
\* the balls p with the next larger one appended
Grown(dims, p) == Append(p, UNION {Adjacent(dims, c) : c \in p[Len(p)]})

RECURSIVE BallSeq(_, _, _)
BallSeq(dims, a, n) ==
    IF n = 0 THEN << {a} >>
    ELSE Grown(dims, BallSeq(dims, a, n - 1))

\* the graph distance from the centre of the balls bs to c, capped at Len(bs)
DistIn(bs, c) == Cardinality({k \in 1..Len(bs) : c \notin bs[k]})

Min2(a, b) == IF a <= b THEN a ELSE b

\* the largest level of a grid, 0 for an empty one
GridMax(g) ==
    LET ls == {g.data[k].level : k \in 1..Len(g.data)}
    IN IF ls = {} THEN 0 ELSE CHOOSE m \in ls : \A l \in ls : l <= m

\* the linear index of the cell main writes to
SrcCell == Index(<<MainW, MainH>>, SrcI, SrcJ)

\* C12: when the grid is Space(0) everywhere but for one Source(L), L >= 1,
\* at s, one evolve leaves s a Source(L), makes every in-bounds neighbor of s
\* Space(L-1) and leaves every other cell Space(0).
C12_FirstGeneration ==
    (ret.op = "evolve" /\ Cardinality(SourcesOf(snap)) = 1) =>
        \A a \in SourcesOf(snap) :
            LET L == snap.data[a + 1].level
            IN (L >= 1 /\ \A c \in 0..(Len(snap.data) - 1) : c # a => snap.data[c + 1] = Space(0))
                  => \A c \in 0..(Len(Active.data) - 1) :
                        Active.data[c + 1] =
                            IF c = a THEN Source(L)
                            ELSE IF c \in Adjacent(Active.dims, a) THEN Space(L - 1)
                            ELSE Space(0)

C12_Witness ==
    /\ ret.op = "evolve"
    /\ gens = 1
    /\ Active.dims = <<MainW, MainH>>
    /\ SourcesOf(snap) = {SrcCell}
    /\ Active.data[SrcCell + 1] = Source(SrcLevel)
    /\ Active.data[SrcCell] = Space(SrcLevel - 1)
    /\ Active.data[SrcCell + 2] = Space(SrcLevel - 1)
    /\ Active.data[SrcCell + MainW + 1] = Space(SrcLevel - 1)
    /\ Active.data[SrcCell - MainW + 1] = Space(0)

\* main is past its second loop
MainDone == pc = "idle" /\ writes = 2 /\ gens = FirstLoop + SecondLoop

\* some cell of the set cs is farther from the centre of the balls bs than
\* every cell of the set far (distances capped at Len(bs))
SomeFarther(bs, cs, far) ==
    LET reach == {DistIn(bs, b) : b \in far}
    IN \E c \in cs : \A d \in reach : DistIn(bs, c) > d

\* C13 as stated: in the generations after the revert, a cell farther from
\* (10,10) than every cell lit at the moment of the revert becomes lit; so by
\* the end of main such a cell has been lit in a printed grid or in the last.
C13_LightSpreadsAfterRevert ==
    MainDone =>
        SomeFarther(BallSeq(Active.dims, SrcCell, SrcLevel),
                    shown.lit \cup LitCells(Active), shown.base)

\* C13 amended: after the revert the light does not spread: k generations
\* after it, a cell at graph distance d from (10,10) holds
\* Space(max(0, min(10 - k, 10 - d))); so the cells lit at the revert are those
\* at distance <= 9, no cell beyond them is ever lit, and the intensity still
\* falls by 1 per step away from (10,10) outside the plateau, floored at 0.
C13_LightFadesAfterRevert ==
    (writes = 2 /\ pc = "idle") =>
        LET k == gens - FirstLoop
            bs == BallSeq(Active.dims, SrcCell, SrcLevel)
        IN /\ \A c \in 0..(Len(Active.data) - 1) :
                 Active.data[c + 1] =
                     Space(Max2(0, Min2(SrcLevel - k, SrcLevel - DistIn(bs, c))))
           /\ shown.base = bs[SrcLevel]
           /\ shown.lit \cup LitCells(Active) \subseteq shown.base

C13_Witness ==
    /\ writes = 2
    /\ pc = "idle"
    /\ gens = FirstLoop + 3
    /\ shown.lit # {}
    /\ Active.data[SrcCell + 1] = Space(7)
    /\ Active.data[SrcCell + 2] = Space(7)
    /\ Active.data[SrcCell + 6] = Space(5)
    /\ Active.data[SrcCell + 10] = Space(1)
    /\ Active.data[SrcCell + 11] = Space(0)

\* C19: on a grid without Source cells an evolve lowers the largest level by
\* exactly 1 while it is positive and raises no cell above the previous
\* largest level; in main the largest level is 10 at the revert, the grid is
\* all Space(0) from 10 generations after it and at the end of the 20.
C19_FadeToDark ==
    /\ (ret.op = "evolve" /\ SourcesOf(snap) = {}) =>
          /\ SourcesOf(Active) = {}
          /\ GridMax(Active) = Max2(GridMax(snap) - 1, 0)
          /\ GridMax(snap) = 0 => Active = snap
    /\ (ret.op = "get_mut" /\ writes = 2) =>
          /\ SourcesOf(Active) = {}
          /\ GridMax(Active) = SrcLevel
    /\ (writes = 2 /\ pc = "idle" /\ gens >= FirstLoop + SrcLevel) =>
          \A k \in 1..Len(Active.data) : Active.data[k] = Space(0)

C19_Witness ==
    /\ writes = 2
    /\ pc = "idle"
    /\ gens = FirstLoop + SecondLoop
    /\ ret.op = "evolve"
    /\ GridMax(snap) = 0
    /\ Len(Active.data) = MainW * MainH
    /\ \A k \in 1..Len(Active.data) : Active.data[k] = Space(0)

====
